---- MODULE Spec2Model ----
(***************************************************************************)
(* A model of the yoomoney client: the reply envelope Rsp<T> and its       *)
(* resolvers (transport.rs, models.rs), the operations built on            *)
(* CallerWrapper::call (lib.rs), Client::revoke_token on call_empty, the   *)
(* authorization flow UnauthorizedClient::authorize with the CLI's         *)
(* do_authorize, get_redirect called concurrently on one transport, and    *)
(* the paginated stream Client::operation_history.                         *)
(*                                                                         *)
(* One run of the model is one invocation of one library operation: Init   *)
(* chooses the operation and its arguments, the actions are the steps of   *)
(* that operation between its suspension points (the awaits on the         *)
(* transport and on the authorization callback, and the yields of the      *)
(* stream).  The remote server, the network and the callback are the       *)
(* environment: whatever they return is drawn from small sets.             *)
(***************************************************************************)
EXTENDS Integers, Sequences, FiniteSets, TLC

(***************************************************************************)
(* Bounds of the model.                                                    *)
(***************************************************************************)
\* The observer follows a history stream for at most this many page requests.
MaxPages == 3

\* How many get_redirect calls are made, concurrently, on one transport.
MaxCalls == 2

(***************************************************************************)
(* JSON reply bodies.  A body is either text that is not JSON, or a JSON   *)
(* object: a function from its keys to JSON values.  A JSON value carries  *)
(* its JSON type in the field t.  (Bodies whose top-level value is not an  *)
(* object are left out: the replies of the service are objects.)           *)
(***************************************************************************)
JStr(s) == [t |-> "string", s |-> s]

JNum(n) == [t |-> "number", n |-> n]

JNull == [t |-> "null"]

JArr(a) == [t |-> "array", a |-> a]

NotJson == [json |-> FALSE]

JObj(o) == [json |-> TRUE, obj |-> o]

Has(o, k) == k \in DOMAIN o

IsStr(o, k) == Has(o, k) /\ o[k].t = "string"

IsNum(o, k) == Has(o, k) /\ o[k].t = "number"

\* The objects whose keys are any subset of keys, each key k with a value of vals[k].
Objects(keys, vals) ==
    UNION { { o \in [D -> UNION { vals[k] : k \in D }] : \A k \in D : o[k] \in vals[k] }
            : D \in SUBSET keys }

(***************************************************************************)
(* Decimal strings.  A string that the code formats or parses is a         *)
(* sequence of characters; u64::to_string and u64::from_str are computed   *)
(* digit by digit.                                                         *)
(***************************************************************************)
Digits == <<"0", "1", "2", "3", "4", "5", "6", "7", "8", "9">>

DigitChar(d) == Digits[d + 1]

DigitVal(c) == CHOOSE d \in 0..9 : Digits[d + 1] = c

IsDigit(c) == \E d \in 0..9 : Digits[d + 1] = c

RECURSIVE U64ToString(_)
\* u64::to_string: the decimal digits, no sign, no leading zero.
U64ToString(n) == IF n < 10 THEN <<DigitChar(n)>>
                  ELSE Append(U64ToString(n \div 10), DigitChar(n % 10))

RECURSIVE DigitsValue(_)
DigitsValue(s) == IF s = <<>> THEN 0
                  ELSE 10 * DigitsValue(SubSeq(s, 1, Len(s) - 1)) + DigitVal(s[Len(s)])

\* u64::from_str: an optional leading "+", then one or more digits; anything
\* else is an error.  (The strings of this model have at most two digits, so
\* the overflow error of from_str cannot arise.)
ParseU64(s) ==
    LET body == IF s # <<>> /\ s[1] = "+" THEN Tail(s) ELSE s
    IN  IF body # <<>> /\ (\A i \in 1..Len(body) : IsDigit(body[i]))
        THEN [ok |-> TRUE, v |-> DigitsValue(body)]
        ELSE [ok |-> FALSE]

(***************************************************************************)
(* Results.  anyhow::Result<T>: Ok(v) or Err(e); e keeps what the error    *)
(* message is built from.                                                  *)
(***************************************************************************)
Ok(v) == [ok |-> TRUE, v |-> v]

Err(e) == [ok |-> FALSE, err |-> e]

\* serde's Option<T>
None == [some |-> FALSE]

Some(v) == [some |-> TRUE, v |-> v]

\* The text of a JSON string value.
StrOf(j) == IF "s" \in DOMAIN j THEN j.s ELSE j.chars

(***************************************************************************)
(* The reply types T that Rsp<T> wraps (models.rs), each decoded from a    *)
(* JSON object as serde's derive does: a required field must be present    *)
(* with the right JSON type, unknown fields are ignored.  The data structs *)
(* (AccountInfo, RequestPaymentSuccessData, ProcessPaymentSuccessData) are *)
(* stood for by one required string field each; an Operation is stood for  *)
(* by a JSON object that names the record it decodes to.                   *)
(***************************************************************************)
\* A complete Operation object of the wire, decoding to record r.
JOperation(r) == [t |-> "object", op |-> r]

\* An object of the operations array that lacks a required field of Operation.
JBadOperation == [t |-> "object", missing |-> "operation_id"]

DecodeTokenExchangeData(o) ==
    IF IsStr(o, "access_token")
    THEN Ok([access_token |-> StrOf(o["access_token"])])
    ELSE Err("decode")

DecodeAccountInfo(o) ==
    IF IsStr(o, "account") THEN Ok([account |-> StrOf(o["account"])]) ELSE Err("decode")

\* StringNumber<u64>, with DisplayFromStr: a JSON string parsed by u64::from_str.
DecodeStringNumber(j) ==
    IF j.t = "string" /\ "chars" \in DOMAIN j /\ ParseU64(j.chars).ok
    THEN Ok(ParseU64(j.chars).v)
    ELSE Err("decode")

\* Option<StringNumber<u64>>: a missing field or null is None.
DecodeNextRecord(o) ==
    IF ~Has(o, "next_record") \/ o["next_record"] = JNull THEN Ok(None)
    ELSE IF DecodeStringNumber(o["next_record"]).ok
         THEN Ok(Some(DecodeStringNumber(o["next_record"]).v))
         ELSE Err("decode")

\* Vec<Operation>: a JSON array all of whose elements decode.
DecodeOperations(o) ==
    IF Has(o, "operations") /\ o["operations"].t = "array"
       /\ (\A i \in 1..Len(o["operations"].a) : "op" \in DOMAIN o["operations"].a[i])
    THEN Ok([i \in 1..Len(o["operations"].a) |-> o["operations"].a[i].op])
    ELSE Err("decode")

DecodeOperationHistoryResponse(o) ==
    IF DecodeNextRecord(o).ok /\ DecodeOperations(o).ok
    THEN Ok([next_record |-> DecodeNextRecord(o).v, operations |-> DecodeOperations(o).v])
    ELSE Err("decode")

\* #[serde(tag = "status", rename_all = "snake_case")] enum RequestPaymentResponse
DecodeRequestPaymentResponse(o) ==
    IF ~IsStr(o, "status") THEN Err("decode")
    ELSE LET st == StrOf(o["status"]) IN
         IF st = "success" /\ IsStr(o, "request_id")
         THEN Ok([status |-> "Success", data |-> StrOf(o["request_id"])])
         ELSE IF st = "hold_for_pickup" /\ IsStr(o, "request_id")
         THEN Ok([status |-> "HoldForPickup", data |-> StrOf(o["request_id"])])
         ELSE IF st = "refused" /\ IsStr(o, "error")
         THEN Ok([status |-> "Refused", error |-> StrOf(o["error"])])
         ELSE Err("decode")

\* #[serde(tag = "status", rename_all = "snake_case")] enum ProcessPaymentResponse
DecodeProcessPaymentResponse(o) ==
    IF ~IsStr(o, "status") THEN Err("decode")
    ELSE LET st == StrOf(o["status"]) IN
         IF st = "success" /\ IsStr(o, "payment_id")
         THEN Ok([status |-> "Success", data |-> StrOf(o["payment_id"])])
         ELSE IF st = "refused" /\ IsStr(o, "error")
         THEN Ok([status |-> "Refused", error |-> StrOf(o["error"])])
         ELSE IF st = "in_progress" /\ IsNum(o, "next_retry")
         THEN Ok([status |-> "InProgress", next_retry |-> o["next_retry"].n])
         ELSE IF st = "ext_auth_required"
         THEN Ok([status |-> "ExtAuthRequired"])
         ELSE IF st = "account_blocked" /\ IsStr(o, "account_unblock_uri")
         THEN Ok([status |-> "AccountBlocked",
                  account_unblock_uri |-> StrOf(o["account_unblock_uri"])])
         ELSE Err("decode")

Types == {"TokenExchangeData", "AccountInfo", "OperationHistoryResponse",
          "RequestPaymentResponse", "ProcessPaymentResponse"}

DecodeT(T, o) ==
    CASE T = "TokenExchangeData" -> DecodeTokenExchangeData(o)
      [] T = "AccountInfo" -> DecodeAccountInfo(o)
      [] T = "OperationHistoryResponse" -> DecodeOperationHistoryResponse(o)
      [] T = "RequestPaymentResponse" -> DecodeRequestPaymentResponse(o)
      [] T = "ProcessPaymentResponse" -> DecodeProcessPaymentResponse(o)

(***************************************************************************)
(* The envelope Rsp<T>: #[serde(untagged)] enum { Error { error: String }, *)
(* OK(T) }.  serde tries the variants in the order written and keeps the   *)
(* first that decodes; the struct variant Error decodes from any object    *)
(* that has a string field `error`, whatever else the object holds.        *)
(***************************************************************************)
\* Whether the body decodes as the variant Rsp::Error.
MatchesErrorVariant(o) == IsStr(o, "error")

\* DecodeRsp with the variants in the other order: OK(T) is tried first.
DecodeRspPayloadFirst(T, body) ==
    IF ~body.json THEN Err("decode")
    ELSE IF DecodeT(T, body.obj).ok
         THEN Ok([variant |-> "OK", v |-> DecodeT(T, body.obj).v])
         ELSE IF MatchesErrorVariant(body.obj)
              THEN Ok([variant |-> "Error", error |-> StrOf(body.obj["error"])])
              ELSE Err("decode")

\* serde_json::from_str::<Rsp<T>>(body)
DecodeRsp(T, body) ==
    IF ~body.json THEN Err("decode")
    ELSE IF MatchesErrorVariant(body.obj)
         THEN Ok([variant |-> "Error", error |-> StrOf(body.obj["error"])])
         ELSE IF DecodeT(T, body.obj).ok
              THEN Ok([variant |-> "OK", v |-> DecodeT(T, body.obj).v])
              ELSE Err("decode")

\* Rsp::into_result: Error { error } is Err("yoomoney error: {error}").
Rsp_into_result(rsp) ==
    IF rsp.variant = "Error"
    THEN Err([kind |-> "yoomoney error", error |-> rsp.error])
    ELSE Ok(rsp.v)

(***************************************************************************)
(* The transport.  An HTTP exchange ends in a network error or in a        *)
(* response with a status and a body.                                      *)
(***************************************************************************)
NetworkError == [net |-> FALSE]

Response(status, body) == [net |-> TRUE, status |-> status, body |-> body]

\* reqwest's error_for_status: a client or server error status.
IsErrorStatus(status) == status >= 400 /\ status <= 599

\* RemoteCaller::call, once the exchange has ended: the body, unless the
\* exchange failed or the status is an error status.
RemoteCaller_call(rsp) ==
    IF ~rsp.net THEN Err([kind |-> "network"])
    ELSE IF IsErrorStatus(rsp.status)
         THEN Err([kind |-> "Received error", status |-> rsp.status, data |-> rsp.body])
         ELSE Ok(rsp.body)

\* CallerWrapper::call::<T>: Ok(serde_json::from_str(&c.await?)?)
CallerWrapper_call(T, rsp) ==
    IF ~RemoteCaller_call(rsp).ok THEN RemoteCaller_call(rsp)
    ELSE IF ~DecodeRsp(T, RemoteCaller_call(rsp).v).ok
         THEN Err([kind |-> "decode"])
         ELSE Ok(DecodeRsp(T, RemoteCaller_call(rsp).v).v)

\* CallerWrapper::call_empty: c.await?; Ok(()).  The body is dropped undecoded.
CallerWrapper_call_empty(rsp) ==
    IF ~RemoteCaller_call(rsp).ok THEN RemoteCaller_call(rsp) ELSE Ok("unit")

\* caller.call::<T>(..).await?.into_result()
CallAndResolve(T, rsp) ==
    IF ~CallerWrapper_call(T, rsp).ok THEN CallerWrapper_call(T, rsp)
    ELSE Rsp_into_result(CallerWrapper_call(T, rsp).v)

(***************************************************************************)
(* The outcome resolvers of models.rs.                                     *)
(***************************************************************************)
\* RequestPaymentResponse_into_result with the hold flag inverted.
RequestPaymentResponse_into_result_flipped(r) ==
    CASE r.status = "Success" -> Ok([hold |-> TRUE, data |-> r.data])
      [] r.status = "HoldForPickup" -> Ok([hold |-> FALSE, data |-> r.data])
      [] r.status = "Refused" -> Err(r.error)

RequestPaymentResponse_into_result(r) ==
    CASE r.status = "Success" -> Ok([hold |-> FALSE, data |-> r.data])
      [] r.status = "HoldForPickup" -> Ok([hold |-> TRUE, data |-> r.data])
      [] r.status = "Refused" -> Err(r.error)

ProcessPaymentResponse_into_result(r) ==
    CASE r.status = "Success" -> Ok(r.data)
      [] r.status = "Refused" -> Err([variant |-> "Refused", error |-> r.error])
      [] r.status = "InProgress" ->
            Err([variant |-> "InProgress", next_retry |-> r.next_retry])
      [] r.status = "ExtAuthRequired" -> Err([variant |-> "ExtAuthRequired"])
      [] r.status = "AccountBlocked" ->
            Err([variant |-> "AccountBlocked",
                 account_unblock_uri |-> r.account_unblock_uri])

(***************************************************************************)
(* Request parameters: HashMap<&str, String> as a function from keys.      *)
(***************************************************************************)
EmptyParams == [k \in {} |-> ""]

\* HashMap::insert: the value of an existing key is replaced.
Insert(p, k, v) == [x \in DOMAIN p \cup {k} |-> IF x = k THEN v ELSE p[x]]

\* for (k, v) in other { params.insert(k, v) }
InsertAll(p, other) ==
    [x \in DOMAIN p \cup DOMAIN other |-> IF x \in DOMAIN other THEN other[x] ELSE p[x]]

\* One HTTP request as RemoteCaller builds it: a form-encoded POST to
\* addr/endpoint; b is the bearer of its authorization header, if it has one.
Request(kind, endpoint, params, b) ==
    [kind |-> kind, endpoint |-> endpoint, params |-> params, bearer |-> b]

(***************************************************************************)
(* The environment's inputs.                                               *)
(***************************************************************************)
Bearers == {None, Some("TOKEN")}

ErrorTexts == {"E1", "E2"}

\* Values a server may put in the field `error`: a string, or not a string.
ErrorValues == {JStr(e) : e \in ErrorTexts} \cup {JNull}

\* Replies of an endpoint whose success bodies are `bodies`: a network
\* error, or a response; statuses other than 200 come with body `probe`.
HttpReplies(bodies, probes) ==
    {NetworkError} \cup {Response(200, b) : b \in bodies}
    \cup {Response(st, b) : st \in {304, 404, 500}, b \in probes}

AccountBodies ==
    {NotJson} \cup
    {JObj(o) : o \in Objects({"account", "error"},
                             [account |-> {JStr("41001")}, error |-> ErrorValues])}

RequestPaymentBodies ==
    {NotJson} \cup
    {JObj(o) : o \in Objects({"status", "error", "request_id"},
        [status |-> {JStr("success"), JStr("hold_for_pickup"), JStr("refused"),
                     JStr("in_progress")},
         error |-> ErrorValues,
         request_id |-> {JStr("R1")}])}

ProcessPaymentBodies ==
    {NotJson} \cup
    {JObj(o) : o \in Objects({"status", "error", "next_retry", "account_unblock_uri",
                              "payment_id"},
        [status |-> {JStr("success"), JStr("refused"), JStr("in_progress"),
                     JStr("ext_auth_required"), JStr("account_blocked"), JStr("bogus")},
         error |-> ErrorValues,
         next_retry |-> {JNum(30)},
         account_unblock_uri |-> {JStr("U1")},
         payment_id |-> {JStr("P1")}])}

ErrorOnlyBodies == {JObj([error |-> JStr(e)]) : e \in ErrorTexts}

\* Arguments of the operations.
Secure3D == [ext_auth_success_uri |-> "ok_uri", ext_auth_fail_uri |-> "fail_uri"]

MoneySources ==
    {[source |-> "Wallet"],
     [source |-> "Card", id |-> "card1", secure3d |-> None],
     [source |-> "Card", id |-> "card1", secure3d |-> Some(Secure3D)]}

ProcessPaymentArgs == [request_id : {"R1"}, money_source : MoneySources]

ShopPaymentArgs ==
    [pattern_id : {"shop1"},
     other : {EmptyParams, [label |-> "L1"], [pattern_id |-> "other1"],
              [test_payment |-> "false"]},
     test : BOOLEAN]

\* Decoded responses handed to the outcome resolvers.
RequestPaymentResponses ==
    [status : {"Success", "HoldForPickup"}, data : {"R1", "R2"}]
    \cup [status : {"Refused"}, error : ErrorTexts]

ProcessPaymentResponses ==
    [status : {"Success"}, data : {"P1", "P2"}]
    \cup [status : {"Refused"}, error : ErrorTexts]
    \cup [status : {"InProgress"}, next_retry : {0, 30}]
    \cup {[status |-> "ExtAuthRequired"]}
    \cup [status : {"AccountBlocked"}, account_unblock_uri : {"U1", "U2"}]

(***************************************************************************)
(* State.                                                                  *)
(***************************************************************************)
VARIABLES
    op,       \* the operation this run invokes
    args,     \* its arguments
    bearer,   \* RemoteCaller::bearer of the caller, fixed at construction
    pc,       \* where the operation stands
    http,     \* the HTTP requests sent so far, in order
    reply,    \* the HTTP exchange that ended last, as the transport saw it
    resolved, \* what call(..).await?.into_result() made of that exchange
    result,   \* what the operation returned, once it has
    outcome,  \* what an outcome resolver, or do_authorize, returned
    redirect_url, \* get_redirect's capture slot, Arc<Mutex<Option<String>>>
    callback_log, \* the URIs authorize_callback was invoked with, in order
    callback_result, \* what the callback's future resolved to, once it has
    temp_token,   \* authorize's `temp_token`, once the callback has returned it
    config,   \* what is at config_location() on disk
    start_record, \* the history stream's cursor, `mut start_record`
    page,     \* the page the history stream is yielding from, `rsp`
    idx,      \* how many operations of that page it has yielded
    yielded,  \* the items the history stream has yielded, in order
    fetched,  \* the pages the history stream has decoded, in order
    recording, \* whether the observer keeps the logs http, yielded and fetched
    calls     \* the get_redirect calls made on one transport, each with its slot

callVars == <<reply, resolved>>

authVars == <<redirect_url, callback_log, callback_result, temp_token, config>>

histVars == <<start_record, page, idx, yielded, fetched>>

vars == <<op, args, bearer, pc, http, reply, resolved, result, outcome,
          redirect_url, callback_log, callback_result, temp_token, config,
          start_record, page, idx, yielded, fetched, recording, calls>>

NoResult == [returned |-> FALSE]

Returned(r) == [returned |-> TRUE, r |-> r]

NoReply == [received |-> FALSE]

\* The observer's logs grow while it records.
Log(log, x) == IF recording THEN Append(log, x) ELSE log

\* The bearer a request is built with.  RemoteCaller::call adds bearer_auth
\* when the caller has a bearer; RemoteCaller::get_redirect builds its POST on
\* a client of its own and never adds it.
BearerOf(kind) == IF kind = "call" THEN bearer ELSE None

\* transport.call(endpoint, params) or transport.get_redirect(endpoint, params):
\* the request is built and sent.
Send(kind, endpoint, params) ==
    http' = Log(http, Request(kind, endpoint, params, BearerOf(kind)))

\* The exchange ends with rsp, and the awaiting call::<T> resolves it.
Receive(T, rsp) ==
    /\ reply' = [received |-> TRUE, rsp |-> rsp, T |-> T]
    /\ resolved' = CallAndResolve(T, rsp)

(***************************************************************************)
(* Client::account_info                                                    *)
(***************************************************************************)
InitAccountInfo ==
    /\ op = "account_info"
    /\ args = EmptyParams
    /\ bearer \in Bearers

AccountInfoCall ==
    /\ op = "account_info" /\ pc = "start"
    /\ Send("call", "api/account-info", EmptyParams)
    /\ pc' = "awaiting"
    /\ UNCHANGED <<op, args, bearer, callVars, result, outcome, authVars, histVars, recording, calls>>

AccountInfoReturn ==
    /\ op = "account_info" /\ pc = "awaiting"
    /\ \E rsp \in HttpReplies(AccountBodies, ErrorOnlyBodies) :
          /\ Receive("AccountInfo", rsp)
          /\ result' = Returned(CallAndResolve("AccountInfo", rsp))
    /\ pc' = "done"
    /\ UNCHANGED <<op, args, bearer, http, outcome, authVars, histVars, recording, calls>>

(***************************************************************************)
(* Client::request_shop_payment, PaymentRequest::send and                  *)
(* TestPaymentRequest::send                                                *)
(***************************************************************************)
\* request_shop_payment with the inserts in the other order: the entries of
\* `other` first, then the pattern_id argument.
request_shop_payment_pattern_last(pattern_id, other) ==
    Insert(InsertAll(EmptyParams, other), "pattern_id", pattern_id)

\* Client::request_shop_payment: the params of the PaymentRequest it builds.
request_shop_payment(pattern_id, other) ==
    InsertAll(Insert(EmptyParams, "pattern_id", pattern_id), other)

\* TestPaymentRequest::send inserts test_payment = true.to_string() first.
SendParams(a) ==
    IF a.test
    THEN Insert(request_shop_payment(a.pattern_id, a.other), "test_payment", "true")
    ELSE request_shop_payment(a.pattern_id, a.other)

InitRequestPayment ==
    /\ op = "request_payment"
    /\ args \in ShopPaymentArgs
    /\ bearer \in Bearers

PaymentRequestSend ==
    /\ op = "request_payment" /\ pc = "start"
    /\ Send("call", "api/request-payment", SendParams(args))
    /\ pc' = "awaiting"
    /\ UNCHANGED <<op, args, bearer, callVars, result, outcome, authVars, histVars, recording, calls>>

PaymentRequestReturn ==
    /\ op = "request_payment" /\ pc = "awaiting"
    /\ \E rsp \in HttpReplies(RequestPaymentBodies, ErrorOnlyBodies) :
          /\ Receive("RequestPaymentResponse", rsp)
          /\ result' = Returned(CallAndResolve("RequestPaymentResponse", rsp))
    /\ pc' = "done"
    /\ UNCHANGED <<op, args, bearer, http, outcome, authVars, histVars, recording, calls>>

(***************************************************************************)
(* Client::process_payment                                                 *)
(***************************************************************************)
ProcessPaymentParams(a) ==
    LET p == Insert(EmptyParams, "request_id", a.request_id) IN
    IF a.money_source.source = "Wallet" THEN Insert(p, "money_source", "wallet")
    ELSE LET q == Insert(p, "money_source", a.money_source.id) IN
         IF a.money_source.secure3d.some
         THEN Insert(Insert(q, "ext_auth_success_uri",
                            a.money_source.secure3d.v.ext_auth_success_uri),
                     "ext_auth_fail_uri", a.money_source.secure3d.v.ext_auth_fail_uri)
         ELSE q

InitProcessPayment ==
    /\ op = "process_payment"
    /\ args \in ProcessPaymentArgs
    /\ bearer \in Bearers

ProcessPaymentCall ==
    /\ op = "process_payment" /\ pc = "start"
    /\ Send("call", "api/process-payment", ProcessPaymentParams(args))
    /\ pc' = "awaiting"
    /\ UNCHANGED <<op, args, bearer, callVars, result, outcome, authVars, histVars, recording, calls>>

ProcessPaymentReturn ==
    /\ op = "process_payment" /\ pc = "awaiting"
    /\ \E rsp \in HttpReplies(ProcessPaymentBodies, ErrorOnlyBodies) :
          /\ Receive("ProcessPaymentResponse", rsp)
          /\ result' = Returned(CallAndResolve("ProcessPaymentResponse", rsp))
    /\ pc' = "done"
    /\ UNCHANGED <<op, args, bearer, http, outcome, authVars, histVars, recording, calls>>

(***************************************************************************)
(* The outcome resolvers applied to a decoded response.                    *)
(***************************************************************************)
InitResolve ==
    /\ \/ op = "RequestPaymentResponse::into_result" /\ args \in RequestPaymentResponses
       \/ op = "ProcessPaymentResponse::into_result" /\ args \in ProcessPaymentResponses
    /\ bearer = None

ResolveRequestPayment ==
    /\ op = "RequestPaymentResponse::into_result" /\ pc = "start"
    /\ outcome' = Returned(RequestPaymentResponse_into_result(args))
    /\ pc' = "done"
    /\ UNCHANGED <<op, args, bearer, http, callVars, result, authVars, histVars, recording, calls>>

ResolveProcessPayment ==
    /\ op = "ProcessPaymentResponse::into_result" /\ pc = "start"
    /\ outcome' = Returned(ProcessPaymentResponse_into_result(args))
    /\ pc' = "done"
    /\ UNCHANGED <<op, args, bearer, http, callVars, result, authVars, histVars, recording, calls>>

(***************************************************************************)
(* UnauthorizedClient::authorize, called by the CLI's do_authorize.        *)
(***************************************************************************)
\* What RemoteCaller::get_redirect's POST can end in: a network error, or a
\* response with a status and, possibly, a redirect target.
RedirectTargets == {"https://x/callback?code=ABC", "https://x/callback?error=denied"}

RedirectReplies ==
    {NetworkError} \cup
    [net : {TRUE}, status : {200, 301, 302, 404},
     location : {None} \cup {Some(u) : u \in RedirectTargets}]

\* reqwest consults the redirect policy for a redirect status with a target.
ConsultsPolicy(rsp) == rsp.status \in {301, 302, 303, 307, 308} /\ rsp.location.some

\* The custom policy of get_redirect: store the target in the slot, then stop.
PolicyHook(slot, rsp) == IF ConsultsPolicy(rsp) THEN Some(rsp.location.v) ELSE slot

\* RemoteCaller_get_redirect taking any response that filled the slot for a
\* redirect, whatever its status.
RemoteCaller_get_redirect_any_status(rsp, slot) ==
    IF ~rsp.net THEN Err([kind |-> "network"])
    ELSE IF slot.some THEN Ok(slot.v)
         ELSE IF rsp.status = 302 THEN Err([kind |-> "panic"])
              ELSE Err([kind |-> "Unexpected status code", status |-> rsp.status])

\* The match on rsp.status() of get_redirect, given the slot after the exchange.
\* FOUND with an empty slot is the panic of expect("always filled ...").
RemoteCaller_get_redirect(rsp, slot) ==
    IF ~rsp.net THEN Err([kind |-> "network"])
    ELSE IF rsp.status = 302
         THEN IF slot.some THEN Ok(slot.v) ELSE Err([kind |-> "panic"])
         ELSE Err([kind |-> "Unexpected status code", status |-> rsp.status])

\* What the callback can return: the temporary code, or an error.
CallbackReturns == {Ok("ABC"), Ok("XYZ"), Err([kind |-> "callback"])}

TokenBodies ==
    {NotJson} \cup
    {JObj(o) : o \in Objects({"access_token", "error"},
                             [access_token |-> {JStr("T1"), JStr("T2")},
                              error |-> ErrorValues])}

\* access_scope.iter()...join(" "): the scopes in the HashSet's iteration order.
ScopeOrders == {<<"account-info", "operation-history">>,
                <<"operation-history", "account-info">>}

AuthorizeParams(a, scope, instance_name) ==
    [client_id |-> a.client_id, response_type |-> "code",
     redirect_uri |-> a.redirect_uri, scope |-> scope, instance_name |-> instance_name]

\* TokenParams with the grant type taken for the response type of step one.
TokenParamsWrongGrant(a, code) ==
    [code |-> code, client_id |-> a.client_id,
     grant_type |-> "code", redirect_uri |-> a.redirect_uri]

TokenParams(a, code) ==
    [code |-> code, client_id |-> a.client_id,
     grant_type |-> "authorization_code", redirect_uri |-> a.redirect_uri]

ConfigAbsent == [kind |-> "absent"]

ConfigDirectory == [kind |-> "directory"]

ConfigFile(token) == [kind |-> "file", token |-> token]

InitAuthorize ==
    /\ op = "authorize"
    /\ args \in [client_id : {"CID"}, redirect_uri : {"https://x/callback"},
                 do_not_store_on_disk : BOOLEAN]
    /\ bearer = None
    /\ config \in {ConfigAbsent, ConfigFile("OLD")}

\* authorize up to the await on get_redirect: the slot is created empty, the
\* client is built and the POST is sent; if the client cannot be built,
\* get_redirect fails without a request.
AuthorizeGetRedirect ==
    /\ op = "authorize" /\ pc = "start"
    /\ redirect_url' = None
    /\ \/ /\ \E scope \in ScopeOrders, uuid \in {"uuid1", "uuid2"} :
               Send("get_redirect", "oauth/authorize", AuthorizeParams(args, scope, uuid))
          /\ pc' = "redirect_wait"
          /\ UNCHANGED result
       \/ /\ result' = Returned(Err([kind |-> "builder"]))
          /\ pc' = "returned"
          /\ UNCHANGED http
    /\ UNCHANGED <<op, args, bearer, callVars, outcome, callback_log, callback_result,
                   temp_token, config, histVars, recording, calls>>

\* The POST of get_redirect ends: the policy hook has run if reqwest consulted
\* it; on Ok the callback is invoked with the captured address.
AuthorizeRedirectReply ==
    /\ op = "authorize" /\ pc = "redirect_wait"
    /\ \E rsp \in RedirectReplies :
        LET slot == IF rsp.net THEN PolicyHook(redirect_url, rsp) ELSE redirect_url
            got == RemoteCaller_get_redirect(rsp, slot)
        IN  /\ redirect_url' = slot
            /\ reply' = [received |-> TRUE, rsp |-> rsp, T |-> "redirect"]
            /\ resolved' = got
            /\ IF got.ok
               THEN /\ callback_log' = Append(callback_log, got.v)
                    /\ pc' = "callback_wait"
                    /\ UNCHANGED result
               ELSE IF got.err.kind = "panic"
               THEN /\ pc' = "panicked"
                    /\ UNCHANGED <<result, callback_log>>
               ELSE /\ result' = Returned(got)
                    /\ pc' = "returned"
                    /\ UNCHANGED callback_log
    /\ UNCHANGED <<op, args, bearer, http, outcome, callback_result, temp_token, config,
                   histVars, recording, calls>>

\* AuthorizeCallbackReturn without the `?` on the callback's result: the
\* exchange is sent with an empty code when the callback failed.
AuthorizeCallbackReturnIgnoresError ==
    /\ op = "authorize" /\ pc = "callback_wait"
    /\ \E r \in CallbackReturns :
        /\ callback_result' = Returned(r)
        /\ temp_token' = Some(IF r.ok THEN r.v ELSE "")
        /\ Send("call", "oauth/token", TokenParams(args, IF r.ok THEN r.v ELSE ""))
        /\ pc' = "token_wait"
    /\ UNCHANGED <<op, args, bearer, callVars, result, outcome, redirect_url, callback_log,
                   config, histVars, recording, calls>>

\* The callback's future resolves; on Ok the token exchange is sent.
AuthorizeCallbackReturn ==
    /\ op = "authorize" /\ pc = "callback_wait"
    /\ \E r \in CallbackReturns :
        /\ callback_result' = Returned(r)
        /\ IF r.ok
           THEN /\ temp_token' = Some(r.v)
                /\ Send("call", "oauth/token", TokenParams(args, r.v))
                /\ pc' = "token_wait"
                /\ UNCHANGED result
           ELSE /\ result' = Returned(r)
                /\ pc' = "returned"
                /\ UNCHANGED <<http, temp_token>>
    /\ UNCHANGED <<op, args, bearer, callVars, outcome, redirect_url, callback_log, config,
                   histVars, recording, calls>>

\* The token exchange ends: Ok(token.access_token), or the error.
AuthorizeTokenReply ==
    /\ op = "authorize" /\ pc = "token_wait"
    /\ \E rsp \in HttpReplies(TokenBodies, ErrorOnlyBodies) :
        /\ Receive("TokenExchangeData", rsp)
        /\ result' = Returned(
              IF CallAndResolve("TokenExchangeData", rsp).ok
              THEN Ok(CallAndResolve("TokenExchangeData", rsp).v.access_token)
              ELSE CallAndResolve("TokenExchangeData", rsp))
    /\ pc' = "returned"
    /\ UNCHANGED <<op, args, bearer, http, outcome, authVars, histVars, recording, calls>>

\* std::fs::create_dir_all(&path) on the config file's own path, its result
\* ignored: where nothing was, there is now a directory.
CreateDirAll(c) == IF c.kind = "absent" THEN ConfigDirectory ELSE c

\* do_authorize after authorize(..).await: `?` returns the error; otherwise
\* the token is stored unless do_not_store_on_disk.  The write onto a
\* directory fails, and its unwrap panics.
DoAuthorizeFinish ==
    /\ op = "authorize" /\ pc = "returned"
    /\ IF ~result.r.ok
       THEN /\ outcome' = Returned(result.r)
            /\ pc' = "done"
            /\ UNCHANGED config
       ELSE IF args.do_not_store_on_disk
       THEN /\ outcome' = Returned(Ok("unit"))
            /\ pc' = "done"
            /\ UNCHANGED config
       ELSE IF CreateDirAll(config).kind = "directory"
       THEN /\ config' = CreateDirAll(config)
            /\ pc' = "panicked"
            /\ UNCHANGED outcome
       ELSE /\ config' = ConfigFile(result.r.v)
            /\ outcome' = Returned(Ok("unit"))
            /\ pc' = "done"
    /\ UNCHANGED <<op, args, bearer, http, callVars, result, redirect_url, callback_log,
                   callback_result, temp_token, histVars, recording, calls>>

(***************************************************************************)
(* Client::operation_history: the stream of try_stream!.  The generator    *)
(* runs when the consumer polls the stream, from one suspension point to   *)
(* the next: the await on the page request, or a yield.  An error of `?`   *)
(* is yielded as an item, after which the generator returns.               *)
(***************************************************************************)
JText(chars) == [t |-> "string", chars |-> chars]

\* The operations arrays and next_record values a server may send.
OperationsValues ==
    {JArr(<<>>), JArr(<<JOperation("a")>>), JArr(<<JOperation("a"), JOperation("b")>>),
     JArr(<<JOperation("c")>>), JArr(<<JOperation("a"), JBadOperation>>)}

NextRecordValues ==
    {JNull, JNum(5), JText(<<"5">>), JText(<<"7">>), JText(<<"+", "7">>), JText(<<"x">>)}

HistoryBodies ==
    {NotJson} \cup
    {JObj(o) : o \in Objects({"operations", "next_record", "error"},
                             [operations |-> OperationsValues,
                              next_record |-> NextRecordValues,
                              error |-> {JStr("E1")}])}

HistoryReplies == HttpReplies(HistoryBodies, ErrorOnlyBodies)

\* The arguments of operation_history: the filters and the first cursor.
HistoryArgs ==
    {[types |-> "", label |-> None, from |-> None, till |-> None,
      start_record |-> 0, details |-> FALSE],
     [types |-> "\"payment\"", label |-> Some("L1"), from |-> Some("2020-01-01T00:00:00+00:00"),
      till |-> None, start_record |-> 12, details |-> TRUE]}

BoolToString(b) == IF b THEN "true" ELSE "false"

InsertSome(p, k, opt) == IF opt.some THEN Insert(p, k, opt.v) ELSE p

\* The params built before the stream, then "start-record" inserted in the loop.
HistoryParams(a, cursor) ==
    Insert(Insert(InsertSome(InsertSome(InsertSome(
        Insert(EmptyParams, "types", a.types),
        "label", a.label), "from", a.from), "till", a.till),
        "details", BoolToString(a.details)),
        "start-record", U64ToString(cursor))

NoPage == [next_record |-> None, operations |-> <<>>]

InitHistory ==
    /\ op = "operation_history"
    /\ args \in HistoryArgs
    /\ bearer \in Bearers

\* The head of the loop, up to the await: the request for the page at cursor.
RequestPage(cursor) ==
    /\ recording => Len(http) < MaxPages
    /\ Send("call", "api/operation-history", HistoryParams(args, cursor))
    /\ pc' = "awaiting"

\* A loop that walks the page from its end.
NextOperationReversed(p, i) == p.operations[Len(p.operations) - i]

\* `for op in rsp.operations`: the operation yielded after i of them.
NextOperation(p, i) == p.operations[i + 1]

\* The first poll of the stream.
HistoryFirstPoll ==
    /\ op = "operation_history" /\ pc = "start"
    /\ RequestPage(start_record)
    /\ UNCHANGED <<op, args, bearer, callVars, result, outcome, authVars, histVars, recording, calls>>

\* HistoryReceive without the is_empty() check: an empty page is walked like
\* any other, so its next_record, if any, is followed at once.
HistoryReceiveNoEmptyCheck ==
    /\ op = "operation_history" /\ pc = "awaiting"
    /\ \E rsp \in HistoryReplies :
        LET got == CallAndResolve("OperationHistoryResponse", rsp) IN
        /\ Receive("OperationHistoryResponse", rsp)
        /\ IF ~got.ok
           THEN /\ yielded' = Log(yielded, got)
                /\ pc' = "errored"
                /\ UNCHANGED <<page, idx, fetched, http, start_record>>
           ELSE /\ fetched' = Log(fetched, got.v)
                /\ page' = got.v
                /\ IF got.v.operations # <<>>
                   THEN /\ yielded' = Log(yielded, Ok(NextOperation(got.v, 0)))
                        /\ idx' = 1
                        /\ pc' = "yielded"
                        /\ UNCHANGED <<http, start_record>>
                   ELSE IF got.v.next_record.some
                   THEN /\ start_record' = got.v.next_record.v
                        /\ RequestPage(got.v.next_record.v)
                        /\ idx' = 0
                        /\ UNCHANGED yielded
                   ELSE /\ pc' = "done"
                        /\ idx' = 0
                        /\ UNCHANGED <<yielded, http, start_record>>
    /\ UNCHANGED <<op, args, bearer, result, outcome, authVars, recording, calls>>

\* The page request ends.  An error is yielded; an empty page ends the
\* stream; otherwise the first operation of the page is yielded.
HistoryReceive ==
    /\ op = "operation_history" /\ pc = "awaiting"
    /\ \E rsp \in HistoryReplies :
        LET got == CallAndResolve("OperationHistoryResponse", rsp) IN
        /\ Receive("OperationHistoryResponse", rsp)
        /\ IF ~got.ok
           THEN /\ yielded' = Log(yielded, got)
                /\ pc' = "errored"
                /\ UNCHANGED <<page, idx, fetched>>
           ELSE /\ fetched' = Log(fetched, got.v)
                /\ page' = got.v
                /\ IF got.v.operations = <<>>
                   THEN /\ pc' = "done"
                        /\ idx' = 0
                        /\ UNCHANGED yielded
                   ELSE /\ yielded' = Log(yielded, Ok(NextOperation(got.v, 0)))
                        /\ idx' = 1
                        /\ pc' = "yielded"
    /\ UNCHANGED <<op, args, bearer, http, result, outcome, authVars, start_record, recording, calls>>

\* A poll while the page has operations left: the next one is yielded.
HistoryYieldNext ==
    /\ op = "operation_history" /\ pc = "yielded"
    /\ idx < Len(page.operations)
    /\ yielded' = Log(yielded, Ok(NextOperation(page, idx)))
    /\ idx' = idx + 1
    /\ UNCHANGED <<op, args, bearer, pc, http, callVars, result, outcome, authVars,
                   start_record, page, fetched, recording, calls>>

\* HistoryNextPage with a cursor the client computes: the old cursor advanced
\* by the number of operations of the page.
HistoryNextPageCountsRecords ==
    /\ op = "operation_history" /\ pc = "yielded"
    /\ idx = Len(page.operations)
    /\ page.next_record.some
    /\ start_record' = start_record + Len(page.operations)
    /\ RequestPage(start_record + Len(page.operations))
    /\ UNCHANGED <<op, args, bearer, callVars, result, outcome, authVars,
                   page, idx, yielded, fetched, recording, calls>>

\* HistoryNextPage without the wait for the page's last operation: the next
\* page is requested as soon as one operation of the page was yielded.
HistoryNextPageEarly ==
    /\ op = "operation_history" /\ pc = "yielded"
    /\ page.next_record.some
    /\ start_record' = page.next_record.v
    /\ RequestPage(page.next_record.v)
    /\ UNCHANGED <<op, args, bearer, callVars, result, outcome, authVars,
                   page, idx, yielded, fetched, recording, calls>>

\* A poll after the page's last operation, the page carrying a next_record:
\* the cursor is replaced and the next page requested.
HistoryNextPage ==
    /\ op = "operation_history" /\ pc = "yielded"
    /\ idx = Len(page.operations)
    /\ page.next_record.some
    /\ start_record' = page.next_record.v
    /\ RequestPage(page.next_record.v)
    /\ UNCHANGED <<op, args, bearer, callVars, result, outcome, authVars,
                   page, idx, yielded, fetched, recording, calls>>

\* HistoryEnd with a loop that goes round again after an error.
HistoryEndRetriesAfterError ==
    /\ op = "operation_history"
    /\ \/ /\ pc = "yielded" /\ idx = Len(page.operations) /\ ~page.next_record.some
          /\ pc' = "done"
          /\ UNCHANGED http
       \/ /\ pc = "errored"
          /\ RequestPage(start_record)
    /\ UNCHANGED <<op, args, bearer, callVars, result, outcome, authVars,
                   histVars, recording, calls>>

\* A poll after the page's last operation, the page carrying no next_record,
\* or a poll after an error was yielded: the generator returns.
HistoryEnd ==
    /\ op = "operation_history"
    /\ \/ pc = "yielded" /\ idx = Len(page.operations) /\ ~page.next_record.some
       \/ pc = "errored"
    /\ pc' = "done"
    /\ UNCHANGED <<op, args, bearer, http, callVars, result, outcome, authVars,
                   histVars, recording, calls>>

\* A poll of the ended stream returns None.
HistoryPollDone ==
    /\ op = "operation_history" /\ pc = "done"
    /\ UNCHANGED vars

HistoryNext ==
    \/ HistoryFirstPoll
    \/ HistoryReceive
    \/ HistoryYieldNext
    \/ HistoryNextPage
    \/ HistoryEnd
    \/ HistoryPollDone

(***************************************************************************)
(* Client::revoke_token: call_empty on api/revoke.                         *)
(***************************************************************************)
\* Bodies the revocation endpoint may answer with.
RevokeBodies ==
    {NotJson, JObj(EmptyParams), JObj([status |-> JStr("refused"), error |-> JStr("E1")])}
    \cup ErrorOnlyBodies

InitRevokeToken ==
    /\ op = "revoke_token"
    /\ args = EmptyParams
    /\ bearer \in Bearers

RevokeTokenCall ==
    /\ op = "revoke_token" /\ pc = "start"
    /\ Send("call", "api/revoke", EmptyParams)
    /\ pc' = "awaiting"
    /\ UNCHANGED <<op, args, bearer, callVars, result, outcome, authVars, histVars, recording, calls>>

RevokeTokenReturn ==
    /\ op = "revoke_token" /\ pc = "awaiting"
    /\ \E rsp \in HttpReplies(RevokeBodies, ErrorOnlyBodies) :
          /\ reply' = [received |-> TRUE, rsp |-> rsp, T |-> "()"]
          /\ resolved' = CallerWrapper_call_empty(rsp)
          /\ result' = Returned(CallerWrapper_call_empty(rsp))
    /\ pc' = "done"
    /\ UNCHANGED <<op, args, bearer, http, outcome, authVars, histVars, recording, calls>>

(***************************************************************************)
(* CallerWrapper::get_redirect called MaxCalls times on one transport, the *)
(* calls running concurrently.  Each call owns the slot it creates; its    *)
(* steps are: build the client and send the POST; the exchange ends, the   *)
(* policy hook of that call's client having run if reqwest consulted it;   *)
(* the match on the status, which reads the slot.                          *)
(***************************************************************************)
Calls == 1..MaxCalls

IdleCall == [pc |-> "idle", slot |-> None, rsp |-> NoReply, result |-> NoResult, sent |-> 0]

InitGetRedirect ==
    /\ op = "get_redirect"
    /\ args \in [client_id : {"CID"}, redirect_uri : {"https://x/callback"}]
    /\ bearer \in Bearers

\* get_redirect up to the await on send: the slot is created empty; the
\* request is sent, unless the client could not be built.
GetRedirectStart(c) ==
    /\ op = "get_redirect" /\ calls[c].pc = "idle"
    /\ \/ /\ Send("get_redirect", "oauth/authorize",
                  AuthorizeParams(args, "account-info", "uuid1"))
          /\ calls' = [calls EXCEPT ![c].slot = None, ![c].sent = 1, ![c].pc = "sent"]
       \/ /\ calls' = [calls EXCEPT ![c].slot = None,
                                    ![c].result = Returned(Err([kind |-> "builder"])),
                                    ![c].pc = "done"]
          /\ UNCHANGED http
    /\ UNCHANGED <<op, args, bearer, pc, callVars, result, outcome, authVars, histVars,
                   recording>>

\* GetRedirectResponse with one slot for the whole transport: the hook of any
\* call writes the slot that every call reads.
GetRedirectResponseSharedSlot(c) ==
    /\ op = "get_redirect" /\ calls[c].pc = "sent"
    /\ \E rsp \in RedirectReplies :
          calls' = [d \in Calls |->
                      IF d = c
                      THEN [calls[d] EXCEPT
                              !.slot = IF rsp.net THEN PolicyHook(calls[d].slot, rsp)
                                       ELSE calls[d].slot,
                              !.rsp = [received |-> TRUE, rsp |-> rsp],
                              !.pc = "responded"]
                      ELSE IF rsp.net /\ ConsultsPolicy(rsp)
                           THEN [calls[d] EXCEPT !.slot = Some(rsp.location.v)]
                           ELSE calls[d]]
    /\ UNCHANGED <<op, args, bearer, pc, http, callVars, result, outcome, authVars,
                   histVars, recording>>

\* The POST of call c ends; the hook of c's client has written c's slot if
\* reqwest consulted the policy.
GetRedirectResponse(c) ==
    /\ op = "get_redirect" /\ calls[c].pc = "sent"
    /\ \E rsp \in RedirectReplies :
          calls' = [calls EXCEPT
                      ![c].slot = IF rsp.net THEN PolicyHook(calls[c].slot, rsp)
                                  ELSE calls[c].slot,
                      ![c].rsp = [received |-> TRUE, rsp |-> rsp],
                      ![c].pc = "responded"]
    /\ UNCHANGED <<op, args, bearer, pc, http, callVars, result, outcome, authVars,
                   histVars, recording>>

\* Call c resumes after the await: `?` on the send, then the match on the
\* status.  The expect on an empty slot panics, and the call returns nothing.
GetRedirectReturn(c) ==
    /\ op = "get_redirect" /\ calls[c].pc = "responded"
    /\ LET got == RemoteCaller_get_redirect(calls[c].rsp.rsp, calls[c].slot) IN
       IF ~got.ok /\ got.err.kind = "panic"
       THEN calls' = [calls EXCEPT ![c].pc = "panicked"]
       ELSE calls' = [calls EXCEPT ![c].result = Returned(got), ![c].pc = "done"]
    /\ UNCHANGED <<op, args, bearer, pc, http, callVars, result, outcome, authVars,
                   histVars, recording>>

(***************************************************************************)
(* The specification.                                                      *)
(***************************************************************************)
Start ==
    /\ \/ InitAuthorize
       \/ /\ \/ InitAccountInfo
             \/ InitRequestPayment
             \/ InitProcessPayment
             \/ InitHistory
             \/ InitResolve
             \/ InitRevokeToken
             \/ InitGetRedirect
          /\ config = ConfigFile("TOKEN")
    /\ start_record = IF op = "operation_history" THEN args.start_record ELSE 0
    /\ page = NoPage
    /\ idx = 0
    /\ yielded = <<>>
    /\ fetched = <<>>
    /\ redirect_url = None
    /\ callback_log = <<>>
    /\ callback_result = NoResult
    /\ temp_token = None
    /\ pc = "start"
    /\ http = <<>>
    /\ reply = NoReply
    /\ resolved = NoResult
    /\ result = NoResult
    /\ outcome = NoResult
    /\ calls = [c \in Calls |-> IdleCall]

Init == Start /\ recording = TRUE

Next ==
    \/ HistoryFirstPoll
    \/ HistoryReceive
    \/ HistoryYieldNext
    \/ HistoryNextPage
    \/ HistoryEnd
    \/ HistoryPollDone
    \/ AuthorizeGetRedirect
    \/ AuthorizeRedirectReply
    \/ AuthorizeCallbackReturn
    \/ AuthorizeTokenReply
    \/ DoAuthorizeFinish
    \/ AccountInfoCall
    \/ AccountInfoReturn
    \/ PaymentRequestSend
    \/ PaymentRequestReturn
    \/ ProcessPaymentCall
    \/ ProcessPaymentReturn
    \/ ResolveRequestPayment
    \/ ResolveProcessPayment
    \/ RevokeTokenCall
    \/ RevokeTokenReturn
    \/ \E c \in Calls : GetRedirectStart(c)
    \/ \E c \in Calls : GetRedirectResponse(c)
    \/ \E c \in Calls : GetRedirectReturn(c)

Spec == Init /\ [][Next]_vars

\* One history stream whose consumer keeps polling and whose page requests
\* all end, the observer keeping no logs.
InitLive == Start /\ op = "operation_history" /\ recording = FALSE

SpecLive == InitLive /\ [][HistoryNext]_vars /\ WF_vars(HistoryNext)

(***************************************************************************)
(* Properties of the history stream.                                       *)
(***************************************************************************)
IsHistory == op = "operation_history"

RECURSIVE RecordsOf(_)
\* The records of a sequence of pages, page after page, each in its own order.
RecordsOf(pages) ==
    IF pages = <<>> THEN <<>>
    ELSE RecordsOf(SubSeq(pages, 1, Len(pages) - 1)) \o pages[Len(pages)].operations

\* The records among the items yielded so far.
YieldedRecords == [i \in 1..Len(SelectSeq(yielded, LAMBDA x : x.ok)) |->
                      SelectSeq(yielded, LAMBDA x : x.ok)[i].v]

\* The records of the current page that are still to be yielded.
Pending == Len(page.operations) - idx

StartRecordOf(req) == req.params["start-record"]

PageAB5 == [next_record |-> Some(5), operations |-> <<"a", "b">>]

PageC == [next_record |-> None, operations |-> <<"c">>]

\* C1: at every moment the records yielded by the stream are the records of
\* the pages fetched so far, in fetch order and page order, less the records
\* of the current page still to come; when the stream has ended they are all
\* of them.  After the pages [a,b | next 5] and [c | no next] the ended stream
\* has yielded a, b, c and sent two requests, the second with start-record "5".
C1_YieldsFetchedInOrder ==
    IsHistory =>
        /\ YieldedRecords
             = SubSeq(RecordsOf(fetched), 1, Len(RecordsOf(fetched)) - Pending)
        /\ pc = "done" => YieldedRecords = RecordsOf(fetched)
        /\ (pc = "done" /\ fetched = <<PageAB5, PageC>>) =>
              /\ yielded = <<Ok("a"), Ok("b"), Ok("c")>>
              /\ Len(http) = 2
              /\ StartRecordOf(http[2]) = <<"5">>

C1_Witness ==
    /\ IsHistory /\ pc = "done"
    /\ fetched = <<PageAB5, PageC>>
    /\ yielded = <<Ok("a"), Ok("b"), Ok("c")>>

\* C2: once a fetched page is empty the stream has ended: nothing was yielded
\* from that page, no request follows the one that fetched it, and this is so
\* whether or not the page carries a next_record.
C2_EmptyPageEnds ==
    (IsHistory /\ fetched # <<>> /\ fetched[Len(fetched)].operations = <<>>) =>
        /\ pc = "done"
        /\ Len(http) = Len(fetched)
        /\ YieldedRecords = RecordsOf(SubSeq(fetched, 1, Len(fetched) - 1))
        /\ Len(yielded) = Len(YieldedRecords)

C2_Witness ==
    /\ IsHistory /\ pc = "done"
    /\ fetched = <<[next_record |-> Some(7), operations |-> <<>>]>>
    /\ yielded = <<>>
    /\ Len(http) = 1

\* C3: a failed page fetch (transport, decode or remote) is yielded as an
\* item, and an error item is the last item: all records of the pages fetched
\* before it precede it, the failing reply contributes no record, and the
\* failing request is the last request.
C3_ErrorIsLastItem ==
    IsHistory =>
        /\ \A i \in 1..Len(yielded) : ~yielded[i].ok => i = Len(yielded)
        /\ (reply.received /\ ~resolved.ok) =>
              /\ yielded # <<>>
              /\ yielded[Len(yielded)] = resolved
              /\ pc \in {"errored", "done"}
              /\ YieldedRecords = RecordsOf(fetched)
              /\ Len(yielded) = Len(YieldedRecords) + 1
              /\ Len(http) = Len(fetched) + 1

C3_Witness ==
    /\ IsHistory /\ pc = "done"
    /\ fetched = <<PageAB5>>
    /\ yielded = <<Ok("a"), Ok("b"), Err([kind |-> "yoomoney error", error |-> "E1"])>>
    /\ Len(http) = 2

\* Infinitely often a non-empty page that carries a next_record arrives.
PagesKeepComing ==
    []<>(IsHistory /\ pc = "yielded" /\ idx = 1 /\ page.next_record.some)

\* C4 as claimed: whatever the server does, a stream that keeps being polled
\* ends.
C4_AlwaysEnds == <>(pc = "done")

\* C4 as amended: a stream that keeps being polled ends unless non-empty pages
\* carrying a next_record keep arriving; an ended stream stays ended, with its
\* cursor, page and position as they were.
C4_EndsUnlessPagesKeepComing ==
    /\ <>(pc = "done") \/ PagesKeepComing
    /\ [][pc = "done" => UNCHANGED <<pc, start_record, page, idx, http, yielded>>]_vars

C4_Witness ==
    /\ IsHistory /\ pc = "done"
    /\ args.start_record = 0 /\ start_record = 7
    /\ page = PageC /\ idx = 1

(***************************************************************************)
(* Properties of the authorization flow.                                   *)
(***************************************************************************)
IsAuthorize == op = "authorize"

AuthorizeSucceeded == IsAuthorize /\ result.returned /\ result.r.ok

\* C5: the steps of authorize come in the order get_redirect, callback, token
\* exchange, and a successful authorize has made exactly one of each: the
\* get_redirect on oauth/authorize with response_type "code", the callback
\* with the address get_redirect returned, the call on oauth/token with the
\* callback's code, grant_type "authorization_code" and the client_id and
\* redirect_uri of step one; it returns the access_token of the reply.
C5_AuthorizeSteps ==
    IsAuthorize =>
        /\ callback_log # <<>> => (Len(http) >= 1 /\ http[1].kind = "get_redirect")
        /\ Len(http) >= 2 => (Len(callback_log) = 1 /\ temp_token.some)
        /\ AuthorizeSucceeded =>
              /\ Len(http) = 2
              /\ http[1].kind = "get_redirect"
              /\ http[1].endpoint = "oauth/authorize"
              /\ http[1].params.response_type = "code"
              /\ http[1].params.client_id = args.client_id
              /\ http[1].params.redirect_uri = args.redirect_uri
              /\ redirect_url.some
              /\ callback_log = <<redirect_url.v>>
              /\ http[2].kind = "call"
              /\ http[2].endpoint = "oauth/token"
              /\ callback_result = Returned(Ok(temp_token.v))
              /\ http[2].params = [code |-> temp_token.v,
                                   client_id |-> http[1].params.client_id,
                                   grant_type |-> "authorization_code",
                                   redirect_uri |-> http[1].params.redirect_uri]
              /\ result.r.v = reply.rsp.body.obj["access_token"].s

C5_Witness ==
    /\ IsAuthorize
    /\ callback_result = Returned(Ok("ABC"))
    /\ reply.received /\ reply.rsp = Response(200, JObj([access_token |-> JStr("T1")]))
    /\ result = Returned(Ok("T1"))

\* The step of authorize that failed.
RedirectFailed ==
    \/ reply.received /\ reply.T = "redirect" /\ ~resolved.ok
    \/ result = Returned(Err([kind |-> "builder"]))

CallbackFailed == callback_result.returned /\ ~callback_result.r.ok

TokenExchangeFailed == reply.received /\ reply.T = "TokenExchangeData" /\ ~resolved.ok

\* C6: if get_redirect fails the callback is not invoked; if the callback
\* fails no request goes to oauth/token; if the token exchange fails authorize
\* returns that error.  In each case no token is returned, no step is made
\* twice, do_authorize returns no success and the config file is as it was.
C6_FailureAborts ==
    IsAuthorize =>
        /\ RedirectFailed => (callback_log = <<>> /\ Len(http) <= 1 /\ ~temp_token.some)
        /\ CallbackFailed =>
              /\ Len(callback_log) = 1
              /\ Len(http) = 1 /\ http[1].endpoint = "oauth/authorize"
              /\ result = Returned(callback_result.r)
        /\ TokenExchangeFailed => result = Returned(resolved)
        /\ (RedirectFailed \/ CallbackFailed \/ TokenExchangeFailed) =>
              /\ ~AuthorizeSucceeded
              /\ Len(http) <= 2
              /\ Len(callback_log) <= 1
              /\ \A i, j \in 1..Len(http) : http[i].endpoint = http[j].endpoint => i = j
              /\ outcome.returned => ~outcome.r.ok
              /\ config \in {ConfigAbsent, ConfigFile("OLD")}

C6_Witness ==
    /\ IsAuthorize /\ pc = "done"
    /\ ~args.do_not_store_on_disk
    /\ TokenExchangeFailed
    /\ resolved = Err([kind |-> "yoomoney error", error |-> "E1"])
    /\ outcome = Returned(resolved)
    /\ config = ConfigAbsent

(***************************************************************************)
(* Properties of the envelope and of the outcome resolvers.                *)
(***************************************************************************)
\* The transport handed a body to call::<T>.
BodyReached ==
    /\ reply.received /\ reply.T \in Types
    /\ reply.rsp.net /\ ~(reply.rsp.status >= 400 /\ reply.rsp.status <= 599)

\* The body is {"error": X} with X a string, and nothing else.
ErrorOnly(body) ==
    body.json /\ DOMAIN body.obj = {"error"} /\ body.obj["error"].t = "string"

RemoteError(x) == Err([kind |-> "yoomoney error", error |-> x])

\* C7: a body {"error": X} resolves to the remote error carrying X, for every
\* target type; and no body with a string `error` resolves to a payload.
C7_ErrorBodyIsRemote ==
    BodyReached =>
        /\ ErrorOnly(reply.rsp.body) => resolved = RemoteError(reply.rsp.body.obj["error"].s)
        /\ (reply.rsp.body.json /\ resolved.ok) =>
              ~("error" \in DOMAIN reply.rsp.body.obj
                /\ reply.rsp.body.obj["error"].t = "string")

C7_Witness ==
    /\ BodyReached /\ reply.T = "ProcessPaymentResponse"
    /\ reply.rsp.body = JObj([error |-> JStr("E1")])
    /\ resolved = RemoteError("E1")
    /\ result = Returned(resolved)

\* C8 as claimed: every body that decodes as T and is not an error-only object
\* resolves to the decoded T.
C8_OnlyErrorOnlyIsError ==
    (BodyReached /\ reply.rsp.body.json /\ ~ErrorOnly(reply.rsp.body)
     /\ DecodeT(reply.T, reply.rsp.body.obj).ok) =>
        resolved = Ok(DecodeT(reply.T, reply.rsp.body.obj).v)

\* C9: each status maps to its one result, with its fields.
C9_OutcomeResolvers ==
    /\ (op = "RequestPaymentResponse::into_result" /\ outcome.returned) =>
          /\ args.status = "Success" => outcome.r = Ok([hold |-> FALSE, data |-> args.data])
          /\ args.status = "HoldForPickup" =>
                outcome.r = Ok([hold |-> TRUE, data |-> args.data])
          /\ args.status = "Refused" => outcome.r = Err(args.error)
    /\ (op = "ProcessPaymentResponse::into_result" /\ outcome.returned) =>
          /\ args.status = "Success" => outcome.r = Ok(args.data)
          /\ args.status = "Refused" =>
                outcome.r = Err([variant |-> "Refused", error |-> args.error])
          /\ args.status = "InProgress" =>
                outcome.r = Err([variant |-> "InProgress", next_retry |-> args.next_retry])
          /\ args.status = "ExtAuthRequired" =>
                outcome.r = Err([variant |-> "ExtAuthRequired"])
          /\ args.status = "AccountBlocked" =>
                outcome.r = Err([variant |-> "AccountBlocked",
                                 account_unblock_uri |-> args.account_unblock_uri])

C9_Witness ==
    /\ op = "RequestPaymentResponse::into_result"
    /\ args = [status |-> "HoldForPickup", data |-> "R2"]
    /\ outcome = Returned(Ok([hold |-> TRUE, data |-> "R2"]))

\* The tagged variant a reply body stands for, when the body is a status tag
\* with exactly the fields of its variant.
RefusedBody(o) ==
    DOMAIN o = {"status", "error"} /\ o["status"] = JStr("refused")
    /\ o["error"].t = "string"

InProgressBody(o) ==
    DOMAIN o = {"status", "next_retry"} /\ o["status"] = JStr("in_progress")
    /\ o["next_retry"].t = "number"

ExtAuthRequiredBody(o) == DOMAIN o = {"status"} /\ o["status"] = JStr("ext_auth_required")

AccountBlockedBody(o) ==
    DOMAIN o = {"status", "account_unblock_uri"} /\ o["status"] = JStr("account_blocked")
    /\ o["account_unblock_uri"].t = "string"

\* C10 as claimed: a reply tagged refused, in_progress, ext_auth_required or
\* account_blocked comes back from process_payment, and a reply tagged refused
\* from PaymentRequest::send, as Ok of the tagged variant.
C10_AlternativeOutcomesAreOk ==
    (BodyReached /\ reply.rsp.body.json /\ result.returned) =>
        /\ (op \in {"process_payment", "request_payment"} /\ RefusedBody(reply.rsp.body.obj)) =>
              result.r = Ok([status |-> "Refused", error |-> reply.rsp.body.obj["error"].s])
        /\ (op = "process_payment" /\ InProgressBody(reply.rsp.body.obj)) =>
              result.r = Ok([status |-> "InProgress",
                             next_retry |-> reply.rsp.body.obj["next_retry"].n])
        /\ (op = "process_payment" /\ ExtAuthRequiredBody(reply.rsp.body.obj)) =>
              result.r = Ok([status |-> "ExtAuthRequired"])
        /\ (op = "process_payment" /\ AccountBlockedBody(reply.rsp.body.obj)) =>
              result.r = Ok([status |-> "AccountBlocked",
                             account_unblock_uri |->
                                 reply.rsp.body.obj["account_unblock_uri"].s])

(***************************************************************************)
(* Properties of the transport and of the caller.                          *)
(***************************************************************************)
\* C11 as claimed: every request made through call, call_empty or
\* get_redirect carries the bearer the caller was constructed with as its
\* authorization header, and none of them carries one when the caller has no
\* bearer.
C11_EveryRequestCarriesBearer ==
    \A i \in 1..Len(http) : http[i].bearer = bearer

\* C12 as claimed: revoke_token, through call_empty, returns Ok(()) whatever
\* the body when the exchange ends with a success status, and returns an error
\* exactly when the exchange fails or ends with a status that is not a success
\* (2xx) status; it never returns a decoded value.
C12_CallEmptyFailsOnNonSuccess ==
    (op = "revoke_token" /\ result.returned) =>
        /\ result.r.ok <=>
              (reply.rsp.net /\ reply.rsp.status >= 200 /\ reply.rsp.status <= 299)
        /\ result.r.ok => result.r.v = "unit"

IsGetRedirect == op = "get_redirect"

\* Call c has come to its end, by returning or by panicking.
Ended(c) == calls[c].pc \in {"done", "panicked"}

UnexpectedStatus(st) == Err([kind |-> "Unexpected status code", status |-> st])

\* The number of get_redirect requests among the requests sent.
RedirectRequests == Len(SelectSeq(http, LAMBDA q : q.kind = "get_redirect"))

IsSingleCall == op \in {"account_info", "request_payment", "process_payment", "revoke_token"}

BuilderFailed(r) == r = Returned(Err([kind |-> "builder"]))

\* The replies a history stream has received: the pages it decoded and the
\* failures it yielded.
RepliesReceived == Len(fetched) + Len(SelectSeq(yielded, LAMBDA x : ~x.ok))

\* C14 as claimed: every invocation of call, call_empty or get_redirect that
\* has ended, by success or by failure, has issued exactly one request.
C14_ExactlyOneRequestPerInvocation ==
    /\ (IsSingleCall /\ result.returned) => Len(http) = 1
    /\ IsGetRedirect => \A c \in Calls : Ended(c) => calls[c].sent = 1
    /\ (IsAuthorize /\ result.returned) => RedirectRequests = 1

\* C14 as amended: an invocation of call or call_empty issues exactly one
\* request, before it returns and whatever it returns; an invocation of
\* get_redirect issues at most one, and exactly one unless its client could not
\* be built, when it fails without a request; authorize issues at most one
\* request to each of its two endpoints; a history stream has issued one
\* request for each reply it received, one more while it awaits a page, and
\* none after a failure.
C14_NeverRetries ==
    /\ IsSingleCall =>
          /\ pc = "start" => Len(http) = 0
          /\ pc \in {"awaiting", "done"} => Len(http) = 1
          /\ result.returned => pc = "done"
    /\ IsGetRedirect =>
          /\ Len(http) = Cardinality({c \in Calls : calls[c].sent = 1})
          /\ \A c \in Calls :
                /\ calls[c].sent \in {0, 1}
                /\ calls[c].pc = "idle" => calls[c].sent = 0
                /\ calls[c].pc \in {"sent", "responded", "panicked"} => calls[c].sent = 1
                /\ calls[c].pc = "done" =>
                      calls[c].sent = IF BuilderFailed(calls[c].result) THEN 0 ELSE 1
    /\ IsAuthorize =>
          /\ Len(http) <= 2
          /\ \A i, j \in 1..Len(http) : http[i].endpoint = http[j].endpoint => i = j
          /\ result.returned =>
                RedirectRequests = IF BuilderFailed(result) THEN 0 ELSE 1
    /\ IsHistory =>
          /\ Len(http) = RepliesReceived + IF pc = "awaiting" THEN 1 ELSE 0
          /\ (\E i \in 1..Len(yielded) : ~yielded[i].ok) =>
                /\ pc \in {"errored", "done"}
                /\ Len(http) = Len(fetched) + 1

C14_Witness ==
    /\ IsGetRedirect
    /\ BuilderFailed(calls[1].result) /\ calls[1].sent = 0
    /\ calls[2].result = Returned(Err([kind |-> "network"])) /\ calls[2].sent = 1
    /\ Len(http) = 1

(***************************************************************************)
(* Properties of the history stream's cursor and of its scheduling.        *)
(***************************************************************************)
\* The parameters of a request other than the cursor.
Filters(req) == [k \in DOMAIN req.params \ {"start-record"} |-> req.params[k]]

\* The next_record of the reply received last, as the server wrote it.
RawNextRecord == reply.rsp.body.obj["next_record"].chars

\* C15: the first request of a stream carries the caller's start_record; every
\* later request carries the next_record of the page fetched just before it,
\* as the decimal string of that number, and the filters of the first request;
\* while such a request is in flight, the string it carries denotes the number
\* that the next_record string of the reply received last denotes.
C15_CursorComesFromServer ==
    IsHistory =>
        /\ Len(http) >= 1 => StartRecordOf(http[1]) = U64ToString(args.start_record)
        /\ \A k \in 2..Len(http) :
              /\ Len(fetched) >= k - 1
              /\ fetched[k - 1].next_record.some
              /\ StartRecordOf(http[k]) = U64ToString(fetched[k - 1].next_record.v)
              /\ Filters(http[k]) = Filters(http[1])
        /\ (Len(http) >= 2 /\ pc = "awaiting") =>
              /\ ParseU64(RawNextRecord).ok
              /\ ParseU64(StartRecordOf(http[Len(http)])) = ParseU64(RawNextRecord)
              /\ start_record = ParseU64(RawNextRecord).v
        /\ \A k \in 1..Len(http) :
              /\ ParseU64(StartRecordOf(http[k])).ok
              /\ IsDigit(StartRecordOf(http[k])[1])

C15_Witness ==
    /\ IsHistory /\ pc = "awaiting"
    /\ Len(http) = 3
    /\ StartRecordOf(http[1]) = <<"1", "2">>
    /\ fetched[1].next_record = Some(7)
    /\ StartRecordOf(http[2]) = <<"7">>
    /\ RawNextRecord = <<"5">>
    /\ StartRecordOf(http[3]) = <<"5">>

\* The page requests of the stream that have been sent and not yet answered.
InFlight == Len(http) - RepliesReceived

\* A step of the stream that issues a page request.
IssuesRequest == IsHistory /\ http' # http

\* C16: a stream that was created and not yet polled has issued no request; at
\* most one page request is in flight, and one is exactly while the stream
\* awaits a page; a step issues one request at most, the first one from the
\* start, every later one only when the reply to the one before was received
\* and decoded and every record of that page was yielded.  (A consumer that
\* stops polling takes no step, and without a step nothing is issued.)
C16_PullDrivenSequential ==
    /\ [](IsHistory =>
            /\ pc = "start" => (http = <<>> /\ ~reply.received)
            /\ InFlight = IF pc = "awaiting" THEN 1 ELSE 0)
    /\ [][IssuesRequest =>
            /\ http' = Append(http, http'[Len(http')])
            /\ pc' = "awaiting"
            /\ \/ pc = "start" /\ http = <<>>
               \/ /\ pc = "yielded"
                  /\ reply.received /\ resolved = Ok(page)
                  /\ Len(fetched) = Len(http) /\ fetched[Len(fetched)] = page
                  /\ idx = Len(page.operations)
                  /\ YieldedRecords = RecordsOf(fetched)]_vars

C16_Witness ==
    /\ IsHistory /\ pc = "awaiting"
    /\ fetched = <<PageAB5>>
    /\ yielded = <<Ok("a"), Ok("b")>>
    /\ Len(http) = 2 /\ InFlight = 1

(***************************************************************************)
(* Properties of the redirect-capture slot.                                *)
(***************************************************************************)
\* What the hook of call c's client wrote, given the response c received:
\* the target of that response if reqwest consulted the policy, else nothing.
OwnCapture(c) ==
    IF calls[c].rsp.rsp.net /\ ConsultsPolicy(calls[c].rsp.rsp)
    THEN Some(calls[c].rsp.rsp.location.v)
    ELSE None

\* C17: the slot of a call is empty until that call's response arrives; from
\* then on it holds what that call's own hook captured from that response and
\* nothing else, whatever the other calls on the transport do; a call returns
\* only after its response arrived, and a call that returns Ok returns the
\* target of its own response.
C17_SlotIsPrivate ==
    /\ [](IsGetRedirect =>
            \A c \in Calls :
                /\ ~calls[c].rsp.received => calls[c].slot = None
                /\ calls[c].rsp.received => calls[c].slot = OwnCapture(c)
                /\ (calls[c].result.returned /\ calls[c].result.r.ok) =>
                      /\ calls[c].rsp.received
                      /\ calls[c].rsp.rsp.location.some
                      /\ calls[c].result.r.v = calls[c].rsp.rsp.location.v)
    /\ [][IsGetRedirect =>
            \A c \in Calls :
                /\ calls'[c].slot # calls[c].slot =>
                      /\ calls[c].pc = "sent" /\ calls'[c].pc = "responded"
                      /\ \A d \in Calls \ {c} : calls'[d] = calls[d]
                /\ (calls'[c].result # calls[c].result /\ calls'[c].result.r.ok) =>
                      calls[c].pc = "responded"]_vars

C17_Witness ==
    /\ IsGetRedirect
    /\ calls[1].pc = "responded"
    /\ calls[1].slot = Some("https://x/callback?code=ABC")
    /\ calls[2].pc = "done"
    /\ calls[2].result = Returned(Ok("https://x/callback?error=denied"))

(***************************************************************************)
(* Properties of the shop payment request.                                 *)
(***************************************************************************)
\* The request to api/request-payment has been sent.
PaymentSent == op = "request_payment" /\ Len(http) = 1

\* C18 as claimed: the request carries pattern_id equal to the argument and
\* every key of `other` with its given value, whatever keys `other` has.
C18_PatternIdIsTheArgument ==
    PaymentSent =>
        /\ http[1].endpoint = "api/request-payment"
        /\ http[1].params["pattern_id"] = args.pattern_id
        /\ ~args.test =>
              \A k \in DOMAIN args.other : http[1].params[k] = args.other[k]

\* C18 as amended: the request goes to api/request-payment with the keys
\* pattern_id and those of `other`, and test_payment when wrapped in
\* TestPaymentRequest, and no other key; every key of `other` carries its given
\* value, except that the wrapper's test_payment is "true" whatever `other`
\* says; pattern_id is the argument when `other` has no key pattern_id, and is
\* the value `other` gives it when it has.
C18_OtherOverridesPatternId ==
    PaymentSent =>
        /\ http[1].endpoint = "api/request-payment"
        /\ DOMAIN http[1].params
              = {"pattern_id"} \cup DOMAIN args.other
                \cup (IF args.test THEN {"test_payment"} ELSE {})
        /\ \A k \in DOMAIN args.other \ (IF args.test THEN {"test_payment"} ELSE {}) :
              http[1].params[k] = args.other[k]
        /\ "pattern_id" \notin DOMAIN args.other =>
              http[1].params["pattern_id"] = args.pattern_id
        /\ args.test => http[1].params["test_payment"] = "true"

C18_Witness ==
    /\ PaymentSent
    /\ args.pattern_id = "shop1" /\ args.other = [pattern_id |-> "other1"] /\ args.test
    /\ http[1].params = [pattern_id |-> "other1", test_payment |-> "true"]

====
